---------------------------- MODULE Spec2Model ----------------------------
(***************************************************************************)
(* Model of Niftyopenvalues2.py: the SimpleStockBot run (connection test,  *)
(* quote fetch with fallback symbols, report, Telegram send with retries). *)
(*                                                                         *)
(* Four specifications share the variables:                                *)
(*   Spec       - one whole run of main()                                  *)
(*   SpecParse  - the bar-building code of get_simplified_stock_data       *)
(*                (lines 93-155) applied to one response drawn from a      *)
(*                bounded set of responses, and the report rendered from   *)
(*                its records                                              *)
(*   SpecFormat - format_simplified_message applied to maps drawn from a   *)
(*                bounded set, twice                                       *)
(*   SpecSend   - one call of send_telegram_message, transmission by       *)
(*                transmission                                             *)
(***************************************************************************)
EXTENDS Integers, Sequences, FiniteSets, TLC

VARIABLES
    pc,                \* position of the run (see Spec) or of SpecParse
    netlog,            \* network calls made so far, in order
    msg,               \* message handed to send_telegram_message: its kind
    attempt,           \* loop variable `attempt` of send_telegram_message (0-based)
    tries,             \* what each finished attempt of the current send met
    waits,             \* seconds slept by the current send, in order
    xmits,             \* HTTP transmissions made by the finished attempts of the send
    result,            \* return value of the last send ("none" while running)
    idx,               \* position in `symbols` of the instrument being fetched
    cand,              \* position in symbols_to_try of the next candidate
    today_open_data,   \* index_name -> today record
    yesterday_data,    \* index_name -> yesterday record
    fetched,           \* per instrument: the candidates fetched, with success flag
    paused,            \* tenths of a second slept since the last quote fetch
    connected,         \* what test_telegram_connection returned ("none" before)
    response,          \* the response the last quote fetch received
    dates_data,        \* dates_data built from that response (sorted)
    message,           \* the text built for the payload send (<<>> before)
    hashseed,          \* the process's string-hash seed: its set iteration order
    sends,             \* the calls of send_telegram_message so far: message kinds
    txlog              \* SpecSend: the HTTP transmissions of the send, one by one

vars == <<pc, netlog, msg, attempt, tries, waits, xmits, result, idx, cand,
          today_open_data, yesterday_data, fetched, paused, connected, response,
          dates_data, message, hashseed, sends, txlog>>

-----------------------------------------------------------------------------
(* Values *)

\* JSON null / Python None
NULL == -1
\* the placeholder string 'N/A'
NA == -2

\* Bound: longest timestamp array of a response
MaxBars == 3

-----------------------------------------------------------------------------
(* Calendar dates: datetime.fromtimestamp(ts, tz=Asia/Kolkata)             *)
(*                 .strftime('%Y-%m-%d')                                   *)
(* A date string 'YYYY-MM-DD' is modelled by <<YYYY, MM, DD>>; the fields  *)
(* are zero padded, so string order is the lexicographic order of the      *)
(* triple.                                                                 *)

\* Asia/Kolkata is UTC+05:30
IstOffset == 19800

SecondsPerDay == 86400

\* days since 1970-01-01 of the local (IST) date of epoch second ts
LocalDay(ts) == (ts + IstOffset) \div SecondsPerDay

\* proleptic Gregorian date of day number z (days since 1970-01-01)
CivilFromDays(z) ==
    LET zz  == z + 719468
        era == zz \div 146097
        doe == zz - era * 146097
        yoe == (doe - doe \div 1460 + doe \div 36524 - doe \div 146096) \div 365
        doy == doe - (365 * yoe + yoe \div 4 - yoe \div 100)
        mp  == (5 * doy + 2) \div 153
        d   == doy - (153 * mp + 2) \div 5 + 1
        m   == IF mp < 10 THEN mp + 3 ELSE mp - 9
        y   == yoe + era * 400 + (IF m <= 2 THEN 1 ELSE 0)
    IN  <<y, m, d>>

DateStr(ts) == CivilFromDays(LocalDay(ts))

\* a < b for two date strings (Python str comparison)
StrLess(a, b) ==
    \/ a[1] < b[1]
    \/ a[1] = b[1] /\ a[2] < b[2]
    \/ a[1] = b[1] /\ a[2] = b[2] /\ a[3] < b[3]

\* round(x, 2): prices are counted in thousandths, the result too
Round2(x) ==
    LET q == x \div 10
        r == x % 10
    IN  IF r < 5 THEN q * 10
        ELSE IF r > 5 THEN (q + 1) * 10
        ELSE IF q % 2 = 0 THEN q * 10 ELSE (q + 1) * 10

-----------------------------------------------------------------------------
(* A response to the quote request (lines 91-114).                         *)
(*   kind "raise"   : session.get or response.json() raised (a network     *)
(*                    failure, retries used up, a body that is not JSON)    *)
(*   kind "http"    : a response came back, status_code is not 200         *)
(*   kind "nochart" : 200, no 'chart' key or an empty chart.result          *)
(*   kind "data"    : 200 with chart.result[0]; timestamp is the timestamp *)
(*                    array (<<>> when absent or empty), hasQuote tells     *)
(*                    whether indicators.quote is present and non-empty,    *)
(*                    open/close/high/low are the arrays of quote[0]        *)
(*                    (<<>> when the key is absent)                         *)

NoData(k) ==
    [kind |-> k, timestamp |-> <<>>, hasQuote |-> FALSE,
     open |-> <<>>, close |-> <<>>, high |-> <<>>, low |-> <<>>]

NoResponse == NoData("none")

\* line 119-120: the condition under which position i becomes a bar
ValidAt_IgnoresClose(r, i) ==
    i <= Len(r.open) /\ r.open[i] # NULL

ValidAt(r, i) ==
    /\ i <= Len(r.close) /\ r.close[i] # NULL
    /\ i <= Len(r.open) /\ r.open[i] # NULL

\* `arr[i] if i < len(arr) else None` (lines 124-127), i counted from 1 here
At(arr, i) == IF i <= Len(arr) THEN arr[i] ELSE NULL

\* lines 122-128: the dict appended for position i
BarAt(r, i) ==
    [date  |-> DateStr(r.timestamp[i]),
     open  |-> At(r.open, i),
     close |-> At(r.close, i),
     high  |-> At(r.high, i),
     low   |-> At(r.low, i)]

\* lines 117-128: dates_data before sorting, from the first n positions
RECURSIVE BuildDatesData(_, _)
BuildDatesData(r, n) ==
    IF n = 0 THEN <<>>
    ELSE IF ValidAt(r, n)
         THEN Append(BuildDatesData(r, n - 1), BarAt(r, n))
         ELSE BuildDatesData(r, n - 1)

\* insertion of bar b into s, sorted by date descending, after the bars it
\* does not precede (list.sort is stable, also with reverse=True)
RECURSIVE InsertDesc(_, _)
InsertDesc(s, b) ==
    IF s = <<>> THEN <<b>>
    ELSE IF StrLess(Head(s).date, b.date)
         THEN <<b>> \o s
         ELSE <<Head(s)>> \o InsertDesc(Tail(s), b)

RECURSIVE SortFrom(_, _)
SortFrom(acc, s) ==
    IF s = <<>> THEN acc ELSE SortFrom(InsertDesc(acc, Head(s)), Tail(s))

SortByDateDesc_Unsorted(s) == s

\* line 131: dates_data.sort(key=lambda x: x['date'], reverse=True)
SortByDateDesc(s) == SortFrom(<<>>, s)

\* lines 117-131
DatesData(r) == SortByDateDesc(BuildDatesData(r, Len(r.timestamp)))

\* `round(v, 2) if v else 'N/A'` (lines 138, 146-149): None and 0 are falsy
Rendered(v) == IF v = NULL \/ v = 0 THEN NA ELSE Round2(v)

\* lines 135-140
TodayRecord(bars, sym) ==
    [date |-> bars[1].date, open |-> Rendered(bars[1].open), symbol_used |-> sym]

YesterdayRecord_NoSymbol(bars, sym) ==
    [date  |-> bars[2].date,
     open  |-> Rendered(bars[2].open),
     close |-> Rendered(bars[2].close),
     high  |-> Rendered(bars[2].high),
     low   |-> Rendered(bars[2].low),
     symbol_used |-> "N/A"]

\* lines 143-151
YesterdayRecord(bars, sym) ==
    [date  |-> bars[2].date,
     open  |-> Rendered(bars[2].open),
     close |-> Rendered(bars[2].close),
     high  |-> Rendered(bars[2].high),
     low   |-> Rendered(bars[2].low),
     symbol_used |-> sym]

\* How one candidate attempt ends (lines 84-162):
\*   "raise"   the except clause (160-162)
\*   "http"    the else of the status test (157-158)
\*   "nochart" line 97-99
\*   "missing" line 104-106
\*   "few"     fewer than 2 bars: falls out of the if at 133
\*   "ok"      at least 2 bars: records written, break
Outcome(r) ==
    CASE r.kind = "raise" -> "raise"
      [] r.kind = "http" -> "http"
      [] r.kind = "nochart" -> "nochart"
      [] r.kind = "data" /\ (r.timestamp = <<>> \/ ~r.hasQuote) -> "missing"
      [] r.kind = "data" /\ Len(DatesData(r)) >= 2 -> "ok"
      [] OTHER -> "few"

Put_Forgets(m, k, v) == [n \in {k} |-> v]

\* m[k] = v on a dict
Put(m, k, v) == [n \in DOMAIN m \cup {k} |-> IF n = k THEN v ELSE m[n]]

EmptyDict == <<>>

-----------------------------------------------------------------------------
(* Configuration of get_simplified_stock_data (lines 55-70) *)

\* the keys of `symbols`, in the order the dict is iterated (line 75)
Instruments ==
    <<"NIFTY 50", "NIFTY BANK", "NIFTY MID SELECT", "NIFTY FINANCIAL SERVICES">>

symbols(name) ==
    CASE name = "NIFTY 50" -> "^NSEI"
      [] name = "NIFTY BANK" -> "^NSEBANK"
      [] name = "NIFTY MID SELECT" -> "NIFTY_MID_SELECT.NS"
      [] name = "NIFTY FINANCIAL SERVICES" -> "NIFTY_FIN_SERVICE.NS"

\* the keys of alternative_symbols
HasAlternatives(name) == name = "NIFTY MID SELECT"

alternative_symbols(name) ==
    <<"NIFTY_MID_SELECT.NS", "^NSEMDCP50", "NIFTY_MIDCAP_100.NS", "NIFTYMIDCAP150.NS">>

SymbolsToTry_PrimaryFirst(name) ==
    IF HasAlternatives(name)
    THEN <<symbols(name)>> \o alternative_symbols(name)
    ELSE <<symbols(name)>>

\* lines 76-80
SymbolsToTry(name) ==
    IF HasAlternatives(name) THEN alternative_symbols(name) ELSE <<symbols(name)>>

\* the declared candidate list of an instrument (lines 56-69)
Candidates(name) ==
    IF name = "NIFTY MID SELECT"
    THEN <<"NIFTY_MID_SELECT.NS", "^NSEMDCP50", "NIFTY_MIDCAP_100.NS", "NIFTYMIDCAP150.NS">>
    ELSE <<symbols(name)>>

-----------------------------------------------------------------------------
(* One pass of the loop over symbols_to_try (lines 83-164) and, when it is *)
(* the last pass for the instrument, lines 166-169.                        *)

LoopEnds_NoBreak(outcome, name, c) == c = Len(SymbolsToTry(name))

LoopEnds_RaiseIsFatal(outcome, name, c) ==
    outcome \in {"ok", "raise"} \/ c = Len(SymbolsToTry(name))

\* the inner loop is left: by the break at 155, or after the last candidate
LoopEnds(outcome, name, c) ==
    outcome = "ok" \/ c = Len(SymbolsToTry(name))

\* the branch of line 133 is taken
RecordsWritten(outcome) == outcome = "ok"

\* tenths of a second slept at line 164: reached unless the pass ended in
\* `continue` (99, 106, 162) or `break` (155)
AttemptSleep(outcome) == IF outcome \in {"http", "few"} THEN 3 ELSE 0

\* tenths of a second slept at line 169
InstrumentSleep == 5

\* dates_data is rebuilt only when lines 117-131 are reached
BarsBuilt(outcome) == outcome \in {"ok", "few"}

FetchAttempt(r) ==
    /\ pc = "FETCH"
    /\ LET name    == Instruments[idx]
           sym     == SymbolsToTry(name)[cand]
           outcome == Outcome(r)
           bars    == IF BarsBuilt(outcome) THEN DatesData(r) ELSE dates_data
           ends    == LoopEnds(outcome, name, cand)
       IN  /\ netlog' = Append(netlog, <<"GET", sym>>)
           /\ response' = r
           /\ dates_data' = bars
           /\ fetched' = [fetched EXCEPT ![idx] =
                             Append(@, [symbol |-> sym, ok |-> outcome = "ok"])]
           /\ IF RecordsWritten(outcome)
              THEN /\ today_open_data' = Put(today_open_data, name, TodayRecord(bars, sym))
                   /\ yesterday_data' = Put(yesterday_data, name, YesterdayRecord(bars, sym))
              ELSE UNCHANGED <<today_open_data, yesterday_data>>
           /\ paused' = AttemptSleep(outcome) + (IF ends THEN InstrumentSleep ELSE 0)
           /\ IF ends
              THEN /\ cand' = 1
                   /\ idx' = idx + 1
                   /\ pc' = IF idx = Len(Instruments) THEN "REPORT" ELSE "FETCH"
              ELSE /\ cand' = cand + 1
                   /\ UNCHANGED <<idx, pc>>
    /\ UNCHANGED <<msg, attempt, tries, waits, xmits, result, connected,
                   message, hashseed, sends, txlog>>

-----------------------------------------------------------------------------
(* The session's transport (create_session, lines 32-49): every request    *)
(* goes through an HTTPAdapter with Retry(total=3, status_forcelist=...).  *)
(* One call of session.post makes one or more transmissions; each meets    *)
(* one of:                                                                 *)
(*   [kind |-> "status", code |-> c]   an HTTP response with status c      *)
(*   [kind |-> "ConnectionError"]      the connection failed               *)
(*   [kind |-> "Timeout"]              the transmission timed out          *)
(*   [kind |-> "Exception"]            any other exception                 *)
(* (code is 0 where there is no status).                                   *)

\* line 38
RetryTotal == 3

\* line 40
StatusForcelist == {429, 500, 502, 503, 504}

Status(c) == [kind |-> "status", code |-> c]
Failure(k) == [kind |-> k, code |-> 0]

\* what a transmission can meet (one status per class of status)
TxResults ==
    {Status(200), Status(404), Status(500),
     Failure("ConnectionError"), Failure("Timeout"), Failure("Exception")}

\* the adapter sends again after this result, while retries are left
Retryable(t) ==
    \/ t.kind = "status" /\ t.code \in StatusForcelist
    \/ t.kind \in {"ConnectionError", "Timeout"}

\* One call of session.post: `resent` transmissions met a retryable result
\* and were sent again, then one more met `last`. The adapter sends again
\* only after a retryable result, and at most RetryTotal times.
IsCall(c) == c.resent < RetryTotal => ~Retryable(c.last)

Calls == {c \in [resent : 0..RetryTotal, last : TxResults] : IsCall(c)}

Transmissions(c) == c.resent + 1

\* What session.post gives the caller: the response it returns, or the class
\* of the exception it raises. With the retries used up on a status of the
\* forcelist the adapter raises (Retry's raise_on_status), which requests
\* reports as RetryError: an exception that is neither a ConnectionError nor
\* a Timeout (code keeps the status that was met). A connection failure or a
\* timeout that outlasts the retries is raised as such; the handlers of the
\* two classes (265-281) do the same.
PostResult(c) ==
    IF c.last.kind = "status" /\ c.last.code \in StatusForcelist
    THEN [kind |-> "RetryError", code |-> c.last.code]
    ELSE c.last

-----------------------------------------------------------------------------
(* send_telegram_message (lines 234-292) *)

\* line 234
max_retries == 3

Backoff_Fixed(res, a) == 2

\* seconds slept after failed attempt a (0-based): lines 260, 269, 278, 287
Backoff(res, a) ==
    CASE res.kind = "status" -> 2
      [] res.kind \in {"ConnectionError", "Timeout"} -> 2 * (a + 1)
      [] OTHER -> 3

MayRetry_TwoAttempts(a) == a < max_retries - 2

\* lines 258, 267, 276, 285: another attempt follows
MayRetry(a) == a < max_retries - 1

\* line 252
Delivered(res) == res.kind = "status" /\ res.code = 200

\* a call of send_telegram_message is running
Sending == pc \in {"TEST_CONNECTION", "SEND"} /\ result = "none"

\* one pass of the loop at line 236, in which session.post made this call
PostReturns(call) ==
    /\ Sending
    /\ attempt < max_retries
    /\ LET res == PostResult(call)
       IN  /\ netlog' = Append(netlog, <<"POST", msg>>)
           /\ xmits' = xmits + Transmissions(call)
           /\ tries' = Append(tries, res)
           /\ IF Delivered(res)
              THEN /\ result' = "True"
                   /\ UNCHANGED <<attempt, waits>>
              ELSE IF MayRetry(attempt)
              THEN /\ waits' = Append(waits, Backoff(res, attempt))
                   /\ attempt' = attempt + 1
                   \* line 292, when range(max_retries) is used up
                   /\ result' = IF attempt + 1 < max_retries THEN "none" ELSE "False"
              ELSE /\ result' = "False"
                   /\ UNCHANGED <<attempt, waits>>
    /\ UNCHANGED <<pc, msg, idx, cand, today_open_data, yesterday_data, fetched,
                   paused, connected, response, dates_data,
                   message, hashseed, sends>>

\* one pass of the loop at line 236, the transmissions of its call taken as
\* one step
SendAttempt(call) ==
    /\ PostReturns(call)
    /\ UNCHANGED txlog

-----------------------------------------------------------------------------
(* The responses the quote requests of a whole run can receive: one of     *)
(* each way an attempt can end.                                            *)

\* the price at position i of array f (1 open, 2 close, 3 high, 4 low), in
\* thousandths
Price(f, i) == f * 100000 + i * 1000 + 4

\* instants of the sample: 2023-12-31 09:15, 2024-01-01 00:30,
\* 2024-01-01 09:15 and 2024-01-02 09:15, all IST
Instants == {1703994300, 1704049200, 1704080700, 1704167100}

DataResponse(ts, o, c, h, l) ==
    [kind |-> "data", timestamp |-> ts, hasQuote |-> TRUE,
     open |-> o, close |-> c, high |-> h, low |-> l]

Prices(f, n) == [i \in 1..n |-> Price(f, i)]

\* three sessions in ascending order, all complete
GoodResponse ==
    DataResponse(<<1703994300, 1704080700, 1704167100>>,
                 Prices(1, 3), Prices(2, 3), Prices(3, 3), Prices(4, 3))

\* two sessions, the later one without a close
ThinResponse ==
    DataResponse(<<1704080700, 1704167100>>,
                 Prices(1, 2), <<Price(2, 1), NULL>>, Prices(3, 2), Prices(4, 2))

RunResponses ==
    {NoData("raise"), NoData("http"), NoData("nochart"), NoData("data"),
     ThinResponse, GoodResponse}

-----------------------------------------------------------------------------
(* format_simplified_message (lines 177-232)                               *)
(* A text is modelled line by line: the kind of the line, the instrument   *)
(* it is about ("" if none) and the sequence of the values printed in it.  *)
(* The fixed decoration of a line (emoji, rule under a header) belongs to  *)
(* its kind. A number prints as itself and the string 'N/A' as NA.         *)

Line(kind, name, value) == [kind |-> kind, name |-> name, value |-> value]

\* the string "" (lines 189-190)
EmptyString == <<>>

\* the defaults 'Today' and 'Yesterday' of .get('date', ...) (192, 194)
TodayLabel == <<"Today">>
YesterdayLabel == <<"Yesterday">>

\* values.get(field, default)
Get(values, field, default) ==
    IF field \in DOMAIN values THEN values[field] ELSE default

\* The keys of a dict in iteration order, which is insertion order: the maps
\* are filled in the order of `symbols` (lines 75, 134, 140).
Keys(m) == SelectSeq(Instruments, LAMBDA n : n \in DOMAIN m)

\* line 220
all_expected_indices ==
    {"NIFTY 50", "NIFTY BANK", "NIFTY MID SELECT", "NIFTY FINANCIAL SERVICES"}

\* The seeds of the string hash a process can start with (one per iteration
\* order of the sample).
HashSeeds == {"seed1", "seed2"}

\* The order in which a set of instrument names is iterated in a process
\* whose string hash has this seed: the order of the slots the hashes fall
\* into.
SetOrder(seed) ==
    IF seed = "seed1"
    THEN <<"NIFTY BANK", "NIFTY 50", "NIFTY FINANCIAL SERVICES", "NIFTY MID SELECT">>
    ELSE <<"NIFTY MID SELECT", "NIFTY 50", "NIFTY BANK", "NIFTY FINANCIAL SERVICES">>

\* ', '.join(names) on a set of names (lines 227, 229)
Join(names, seed) == SelectSeq(SetOrder(seed), LAMBDA n : n \in names)

\* lines 221, 222
Missing(data) == all_expected_indices \ DOMAIN data

\* datetime.now(ist).strftime("%d-%m-%Y %H:%M:%S IST") (lines 182-183) at
\* epoch second now: the IST date and the second of the IST day
CurrentTime(now) == DateStr(now) \o <<(now + IstOffset) % SecondsPerDay>>

\* lines 191-192
TodayDate(today) ==
    IF DOMAIN today # {}
    THEN Get(today[Keys(today)[1]], "date", TodayLabel)
    ELSE EmptyString

\* lines 193-194
YesterdayDate(yesterday) ==
    IF DOMAIN yesterday # {}
    THEN Get(yesterday[Keys(yesterday)[1]], "date", YesterdayLabel)
    ELSE EmptyString

\* lines 202, 212
SymbolInfo(values) ==
    IF "symbol_used" \in DOMAIN values THEN values["symbol_used"] ELSE ""

\* lines 200-204, for the keys still to come
RECURSIVE TodayBlocks(_, _)
TodayBlocks(keys, today) ==
    IF keys = <<>> THEN <<>>
    ELSE LET index_name == Head(keys)
             values     == today[index_name]
         IN  <<Line("today_name", index_name, <<SymbolInfo(values)>>),
               Line("today_open", index_name, <<Get(values, "open", NA)>>)>>
             \o TodayBlocks(Tail(keys), today)

\* lines 210-217, for the keys still to come
RECURSIVE YesterdayBlocks(_, _)
YesterdayBlocks(keys, yesterday) ==
    IF keys = <<>> THEN <<>>
    ELSE LET index_name == Head(keys)
             values     == yesterday[index_name]
         IN  <<Line("yesterday_name", index_name, <<SymbolInfo(values)>>),
               Line("yesterday_open", index_name, <<Get(values, "open", NA)>>),
               Line("yesterday_high", index_name, <<Get(values, "high", NA)>>),
               Line("yesterday_low", index_name, <<Get(values, "low", NA)>>),
               Line("yesterday_close", index_name, <<Get(values, "close", NA)>>)>>
             \o YesterdayBlocks(Tail(keys), yesterday)

StatusEmitted_Always(missing_today, missing_yesterday) == TRUE

\* line 224
StatusEmitted(missing_today, missing_yesterday) ==
    missing_today # {} \/ missing_yesterday # {}

\* lines 224-229
DataStatus(missing_today, missing_yesterday, seed) ==
    IF StatusEmitted(missing_today, missing_yesterday)
    THEN <<Line("data_status", "", <<>>)>>
         \o (IF missing_today # {}
             THEN <<Line("missing_today", "", Join(missing_today, seed))>>
             ELSE <<>>)
         \o (IF missing_yesterday # {}
             THEN <<Line("missing_yesterday", "", Join(missing_yesterday, seed))>>
             ELSE <<>>)
    ELSE <<>>

\* line 180
UnableMessage == <<Line("unable", "", <<>>)>>

\* the text returned for the two maps at epoch second now, in a process with
\* this hash seed
format_simplified_message(today, yesterday, now, seed) ==
    IF DOMAIN today = {} /\ DOMAIN yesterday = {}
    THEN UnableMessage
    ELSE <<Line("greeting", "", <<>>),
           Line("retrieved", "", CurrentTime(now)),
           Line("today_header", "", TodayDate(today))>>
         \o TodayBlocks(Keys(today), today)
         \o <<Line("yesterday_header", "", YesterdayDate(yesterday))>>
         \o YesterdayBlocks(Keys(yesterday), yesterday)
         \o DataStatus(Missing(today), Missing(yesterday), seed)
         \o <<Line("footer", "", <<>>)>>

\* line 319
ErrorMessage == <<Line("error", "", <<>>)>>

\* instants at which a report is built: 2024-01-02 09:15:00 and 09:16:00 IST
Clock == {1704167100, 1704167160}

-----------------------------------------------------------------------------
(* main (lines 346-367), test_telegram_connection (324-339) and            *)
(* get_and_send_simplified_stock_data (294-322)                            *)

\* entering send_telegram_message with message m
CallSend(m) ==
    /\ sends' = Append(sends, m)
    /\ msg' = m
    /\ attempt' = 0
    /\ tries' = <<>>
    /\ waits' = <<>>
    /\ xmits' = 0
    /\ result' = "none"

\* send_telegram_message has returned to its caller, who has read the result:
\* its locals are gone
CallReturned ==
    /\ msg' = "none"
    /\ attempt' = 0
    /\ tries' = <<>>
    /\ waits' = <<>>
    /\ xmits' = 0
    /\ result' = "none"

NoFetch == [i \in 1..Len(Instruments) |-> <<>>]

\* line 360 -> 328: the test message is sent
StartTest ==
    /\ pc = "INIT"
    /\ pc' = "TEST_CONNECTION"
    /\ CallSend("test")
    /\ UNCHANGED <<netlog, idx, cand, today_open_data, yesterday_data, fetched,
                   paused, connected, response, dates_data,
                   message, hashseed, txlog>>

Proceeds_Always(r) == TRUE

\* lines 329-339 and 360: the run goes on to the fetch
Proceeds(r) == r = "True"

\* test_telegram_connection returns; main enters
\* get_and_send_simplified_stock_data (362) or skips it (363-365)
TestReturns ==
    /\ pc = "TEST_CONNECTION"
    /\ result # "none"
    /\ connected' = result
    /\ CallReturned
    /\ IF Proceeds(result)
       THEN /\ pc' = "FETCH"
            /\ idx' = 1
            /\ cand' = 1
            /\ today_open_data' = EmptyDict
            /\ yesterday_data' = EmptyDict
       ELSE /\ pc' = "ABORT"
            /\ UNCHANGED <<idx, cand, today_open_data, yesterday_data>>
    /\ UNCHANGED <<netlog, fetched, paused, response, dates_data,
                   message, hashseed, sends, txlog>>

HaveData_Never(today, yesterday) == FALSE

\* line 301: `if today_open_data or yesterday_data`
HaveData(today, yesterday) == DOMAIN today # {} \/ DOMAIN yesterday # {}

\* lines 299-303 and 319-320: get_simplified_stock_data has returned; the
\* report is built at epoch second now, or the error message is taken, and
\* handed to send_telegram_message
SendPayload(now) ==
    /\ pc = "REPORT"
    /\ pc' = "SEND"
    /\ IF HaveData(today_open_data, yesterday_data)
       THEN /\ message' = format_simplified_message(today_open_data, yesterday_data,
                                                    now, hashseed)
            /\ CallSend("report")
       ELSE /\ message' = ErrorMessage
            /\ CallSend("error")
    /\ response' = NoResponse
    /\ dates_data' = <<>>
    /\ paused' = 0
    /\ UNCHANGED <<netlog, idx, cand, today_open_data, yesterday_data, fetched,
                   connected, hashseed, txlog>>

\* lines 304-322 and 367: the result is only printed
PayloadReturns ==
    /\ pc = "SEND"
    /\ result # "none"
    /\ pc' = "DONE"
    /\ CallReturned
    /\ message' = <<>>
    /\ UNCHANGED <<netlog, idx, cand, today_open_data, yesterday_data, fetched,
                   paused, connected, response, dates_data,
                   hashseed, sends, txlog>>

\* lines 364-367
Abort ==
    /\ pc = "ABORT"
    /\ pc' = "DONE"
    /\ UNCHANGED <<netlog, msg, attempt, tries, waits, xmits, result, idx, cand,
                   today_open_data, yesterday_data, fetched, paused, connected,
                   response, dates_data,
                   message, hashseed, sends, txlog>>

Init ==
    /\ pc = "INIT"
    /\ netlog = <<>>
    /\ msg = "none"
    /\ attempt = 0
    /\ tries = <<>>
    /\ waits = <<>>
    /\ xmits = 0
    /\ result = "none"
    /\ idx = 1
    /\ cand = 1
    /\ today_open_data = EmptyDict
    /\ yesterday_data = EmptyDict
    /\ fetched = NoFetch
    /\ paused = 0
    /\ connected = "none"
    /\ response = NoResponse
    /\ dates_data = <<>>
    /\ message = <<>>
    /\ hashseed \in HashSeeds
    /\ sends = <<>>
    /\ txlog = <<>>

Next ==
    \/ StartTest
    \/ \E call \in Calls : SendAttempt(call)
    \/ TestReturns
    \/ \E r \in RunResponses : FetchAttempt(r)
    \/ \E now \in Clock : SendPayload(now)
    \/ PayloadReturns
    \/ Abort

Spec == Init /\ [][Next]_vars

-----------------------------------------------------------------------------
(* SpecParse: lines 93-155 applied to one response. The response is drawn  *)
(* from the quote results with at most MaxBars timestamps among Instants,  *)
(* no two of them the same instant.                                        *)

\* array of field f: the first len positions, position hole (if any) null
QuoteArray(f, len, hole) ==
    [i \in 1..len |-> IF i = hole THEN NULL ELSE Price(f, i)]

\* the open and close arrays for n timestamps: both of full length with at
\* most one null each, or one of them cut short
OpenClose(n) ==
    {<<QuoteArray(1, n, ho), QuoteArray(2, n, hc)>> : ho \in 0..n, hc \in 0..n}
    \cup {<<QuoteArray(1, len, 0), QuoteArray(2, n, 0)>> : len \in 0..(n - 1)}
    \cup {<<QuoteArray(1, n, 0), QuoteArray(2, len, 0)>> : len \in 0..(n - 1)}

\* the high and low arrays: complete, absent, or zeros and nulls
HighLow(n) ==
    {<<Prices(3, n), Prices(4, n)>>,
     <<(<<>>), (<<>>)>>,
     <<[i \in 1..n |-> 0], [i \in 1..n |-> NULL]>>}

\* n instants, no instant twice, in any order
TimestampArrays(n) ==
    {ts \in [1..n -> Instants] : \A i, j \in 1..n : i # j => ts[i] # ts[j]}

ParseResponses ==
    UNION {
        {DataResponse(ts, oc[1], oc[2], hl[1], hl[2]) :
            ts \in TimestampArrays(n), oc \in OpenClose(n), hl \in HighLow(n)}
        : n \in 1..MaxBars}

\* the instrument and the symbol SpecParse fetches for
ParseName == Instruments[1]

InitParse ==
    /\ pc = "PARSE"
    /\ response \in ParseResponses
    /\ netlog = <<>>
    /\ msg = "none"
    /\ attempt = 0
    /\ tries = <<>>
    /\ waits = <<>>
    /\ xmits = 0
    /\ result = "none"
    /\ idx = 1
    /\ cand = 1
    /\ today_open_data = EmptyDict
    /\ yesterday_data = EmptyDict
    /\ fetched = NoFetch
    /\ paused = 0
    /\ connected = "none"
    /\ dates_data = <<>>
    /\ message = <<>>
    /\ hashseed \in HashSeeds
    /\ sends = <<>>
    /\ txlog = <<>>

\* lines 93-155 on `response`
Parse ==
    /\ pc = "PARSE"
    /\ pc' = "PARSED"
    /\ LET outcome == Outcome(response)
           sym     == SymbolsToTry(ParseName)[1]
           bars    == IF BarsBuilt(outcome) THEN DatesData(response) ELSE dates_data
       IN  /\ dates_data' = bars
           /\ fetched' = [fetched EXCEPT ![1] =
                             Append(@, [symbol |-> sym, ok |-> outcome = "ok"])]
           /\ IF RecordsWritten(outcome)
              THEN /\ today_open_data' = Put(today_open_data, ParseName, TodayRecord(bars, sym))
                   /\ yesterday_data' = Put(yesterday_data, ParseName, YesterdayRecord(bars, sym))
              ELSE UNCHANGED <<today_open_data, yesterday_data>>
    /\ UNCHANGED <<netlog, msg, attempt, tries, waits, xmits, result, idx, cand,
                   paused, connected, response,
                   message, hashseed, sends, txlog>>

\* lines 177-232 on the records built from `response`, at epoch second now
Render(now) ==
    /\ pc = "PARSED"
    /\ pc' = "RENDERED"
    /\ message' = format_simplified_message(today_open_data, yesterday_data,
                                            now, hashseed)
    /\ UNCHANGED <<netlog, msg, attempt, tries, waits, xmits, result, idx, cand,
                   today_open_data, yesterday_data, fetched, paused, connected,
                   response, dates_data, hashseed, sends, txlog>>

NextParse ==
    \/ Parse
    \/ \E now \in Clock : Render(now)

SpecParse == InitParse /\ [][NextParse]_vars

-----------------------------------------------------------------------------
(* SpecFormat: format_simplified_message (lines 177-232) as a function of  *)
(* its arguments. The two maps are drawn independently: each holds any     *)
(* subset of the instruments, with records as get_simplified_stock_data    *)
(* writes them or with records that lack keys. The function is called, and *)
(* called once more with the same maps, in the same process or in a        *)
(* process started anew.                                                   *)

\* a record as lines 135-139 write it, and one without 'date' and
\* 'symbol_used'
TodaySamples ==
    {[date |-> <<2024, 1, 2>>, open |-> Round2(Price(1, 3)), symbol_used |-> "^NSEI"],
     [open |-> NA]}

\* a record as lines 143-150 write it, and one without 'date', 'high', 'low'
\* and 'symbol_used'
YesterdaySamples ==
    {[date |-> <<2024, 1, 1>>, open |-> Round2(Price(1, 2)), close |-> Round2(Price(2, 2)),
      high |-> Round2(Price(3, 2)), low |-> NA, symbol_used |-> "^NSEI"],
     [open |-> Round2(Price(1, 2)), close |-> NA]}

\* the dicts that give every key in names the same record of samples
Dicts(samples) ==
    {[n \in names |-> rec] : names \in SUBSET all_expected_indices, rec \in samples}

InitFormat ==
    /\ pc = "FORMAT"
    /\ today_open_data \in Dicts(TodaySamples)
    /\ yesterday_data \in Dicts(YesterdaySamples)
    /\ hashseed \in HashSeeds
    /\ sends = <<>>
    /\ txlog = <<>>
    /\ message = <<>>
    /\ netlog = <<>>
    /\ msg = "none"
    /\ attempt = 0
    /\ tries = <<>>
    /\ waits = <<>>
    /\ xmits = 0
    /\ result = "none"
    /\ idx = 1
    /\ cand = 1
    /\ fetched = NoFetch
    /\ paused = 0
    /\ connected = "none"
    /\ response = NoResponse
    /\ dates_data = <<>>

\* a call of format_simplified_message at epoch second now: the first one,
\* or the second one
Format(now) ==
    /\ pc \in {"FORMAT", "FORMATTED", "RESTARTED"}
    /\ pc' = IF pc = "FORMAT" THEN "FORMATTED" ELSE "AGAIN"
    /\ message' = format_simplified_message(today_open_data, yesterday_data,
                                            now, hashseed)
    /\ UNCHANGED <<netlog, msg, attempt, tries, waits, xmits, result, idx, cand,
                   today_open_data, yesterday_data, fetched, paused, connected,
                   response, dates_data, hashseed, sends, txlog>>

\* the interpreter is started anew between the two calls (lines 377-378):
\* the string hash gets a seed of its own; the first text is kept
Restart ==
    /\ pc = "FORMATTED"
    /\ pc' = "RESTARTED"
    /\ hashseed' \in HashSeeds
    /\ UNCHANGED <<netlog, msg, attempt, tries, waits, xmits, result, idx, cand,
                   today_open_data, yesterday_data, fetched, paused, connected,
                   response, dates_data, message, sends, txlog>>

NextFormat ==
    \/ \E now \in Clock : Format(now)
    \/ Restart

SpecFormat == InitFormat /\ [][NextFormat]_vars

-----------------------------------------------------------------------------
(* SpecSend: one call of send_telegram_message (lines 234-292), the HTTP   *)
(* transmissions made by the session's adapter (32-49) inside session.post *)
(* taken one by one. The call is the one of the connection test.           *)

\* what a transmission meets in SpecSend: a success, a status outside the
\* forcelist, a status of the forcelist, a failed connection
TxSample == {Status(200), Status(404), Status(500), Failure("ConnectionError")}

\* send_telegram_message has just been entered with the test message
InitSend ==
    /\ pc = "TEST_CONNECTION"
    /\ msg = "test"
    /\ sends = <<"test">>
    /\ attempt = 0
    /\ tries = <<>>
    /\ waits = <<>>
    /\ xmits = 0
    /\ result = "none"
    /\ txlog = <<>>
    /\ netlog = <<>>
    /\ idx = 1
    /\ cand = 1
    /\ today_open_data = EmptyDict
    /\ yesterday_data = EmptyDict
    /\ fetched = NoFetch
    /\ paused = 0
    /\ connected = "none"
    /\ response = NoResponse
    /\ dates_data = <<>>
    /\ message = <<>>
    /\ hashseed = "seed1"

\* the transmissions session.post has made so far in this pass of the loop:
\* each met a retryable result and was followed by the next
ResentInPass == Cardinality({k \in 1..Len(txlog) : txlog[k].attempt = attempt})

\* One HTTP transmission inside session.post (line 245) meets t. The adapter
\* sends again if t is retryable and retries are left (lines 37-47);
\* otherwise session.post returns or raises and the pass of the loop ends.
Transmit(t) ==
    /\ Sending
    /\ attempt < max_retries
    /\ txlog' = Append(txlog, [attempt |-> attempt, met |-> t])
    /\ IF Retryable(t) /\ ResentInPass < RetryTotal
       THEN UNCHANGED <<pc, netlog, msg, attempt, tries, waits, xmits, result, idx,
                        cand, today_open_data, yesterday_data, fetched, paused,
                        connected, response, dates_data, message, hashseed, sends>>
       ELSE PostReturns([resent |-> ResentInPass, last |-> t])

NextSend == \E t \in TxSample : Transmit(t)

SpecSend == InitSend /\ [][NextSend]_vars

-----------------------------------------------------------------------------
(* Properties of the symbol resolver, under Spec *)

Present(i) ==
    /\ Instruments[i] \in DOMAIN today_open_data
    /\ Instruments[i] \in DOMAIN yesterday_data

Absent(i) ==
    /\ Instruments[i] \notin DOMAIN today_open_data
    /\ Instruments[i] \notin DOMAIN yesterday_data

\* the last candidate fetched for instrument i yielded at least 2 bars
LastSucceeded(i) ==
    Len(fetched[i]) > 0 /\ fetched[i][Len(fetched[i])].ok

\* every candidate of instrument i was fetched and none yielded 2 bars
Exhausted(i) ==
    /\ Len(fetched[i]) = Len(Candidates(Instruments[i]))
    /\ \A k \in 1..Len(fetched[i]) : ~fetched[i][k].ok

\* C1: the candidates of an instrument are fetched in declared order, one
\* after the other from the first; nothing is fetched for the instrument
\* after a candidate that yielded at least 2 bars, and both records of the
\* instrument then carry that candidate as symbol_used.
C1_InOrderUntilFirstSuccess ==
    \A i \in 1..Len(Instruments) :
        LET f  == fetched[i]
            cs == Candidates(Instruments[i])
        IN  /\ Len(f) <= Len(cs)
            /\ \A k \in 1..Len(f) : f[k].symbol = cs[k]
            /\ \A k \in 1..(Len(f) - 1) : ~f[k].ok
            /\ LastSucceeded(i) =>
                  /\ Present(i)
                  /\ today_open_data[Instruments[i]].symbol_used = f[Len(f)].symbol
                  /\ yesterday_data[Instruments[i]].symbol_used = f[Len(f)].symbol
                  /\ idx > i

\* the first candidate of the mid-cap index failed, the second succeeded and
\* the loop has gone on to the next instrument
C1_Witness ==
    /\ Len(fetched[3]) = 2
    /\ ~fetched[3][1].ok
    /\ fetched[3][2].ok
    /\ idx = 4
    /\ "NIFTY MID SELECT" \in DOMAIN today_open_data
    /\ today_open_data["NIFTY MID SELECT"].symbol_used = "^NSEMDCP50"
    /\ yesterday_data["NIFTY MID SELECT"].symbol_used = "^NSEMDCP50"

\* the instruments before position i of `symbols` are done with
Finished(i) == i < idx

\* C2: a failed attempt, whatever its kind, leads to the next candidate of
\* the same instrument (the loop stands at the candidate after the ones
\* fetched, none of which succeeded); an instrument the loop is done with is
\* absent from both maps exactly when all its candidates were fetched and
\* failed; and when get_simplified_stock_data returns, every instrument has
\* been attempted, whichever instruments were exhausted before it.
C2_FailureMovesOn ==
    /\ pc = "FETCH" =>
          /\ Len(fetched[idx]) = cand - 1
          /\ \A k \in 1..Len(fetched[idx]) : ~fetched[idx][k].ok
          /\ Absent(idx)
          /\ response.kind # "none" /\ cand > 1 => Outcome(response) # "ok"
    /\ \A i \in 1..Len(Instruments) :
          /\ Finished(i) => (Absent(i) <=> Exhausted(i))
          /\ Finished(i) => (Present(i) <=> LastSucceeded(i))
          /\ Finished(i) => Len(fetched[i]) >= 1
          /\ ~Finished(i) /\ (pc # "FETCH" \/ i # idx) => fetched[i] = <<>>
    /\ pc \in {"REPORT", "SEND"} \/ (pc = "DONE" /\ connected = "True") =>
          \A i \in 1..Len(Instruments) : Finished(i)

\* the mid-cap index ran out of candidates and the instrument after it was
\* fetched and recorded
C2_Witness ==
    /\ pc = "REPORT"
    /\ Exhausted(3)
    /\ Absent(3)
    /\ Present(4)
    /\ netlog[Len(netlog) - 1] = <<"GET", "NIFTYMIDCAP150.NS">>

\* C3: an instrument has a today record or a yesterday record only if one of
\* its candidates yielded at least 2 bars; the two maps hold the same
\* instruments; the two records of an instrument carry the same symbol_used,
\* the candidate that yielded the bars, a member of its candidate list.
C3_RecordsOnlyFromSuccess ==
    /\ DOMAIN today_open_data = DOMAIN yesterday_data
    /\ DOMAIN today_open_data \subseteq {Instruments[i] : i \in 1..Len(Instruments)}
    /\ \A i \in 1..Len(Instruments) :
          LET name == Instruments[i]
          IN  name \in DOMAIN today_open_data \cup DOMAIN yesterday_data =>
                 /\ LastSucceeded(i)
                 /\ today_open_data[name].symbol_used = yesterday_data[name].symbol_used
                 /\ today_open_data[name].symbol_used = fetched[i][Len(fetched[i])].symbol
                 /\ \E k \in 1..Len(Candidates(name)) :
                        today_open_data[name].symbol_used = Candidates(name)[k]

\* all four instruments recorded, the mid-cap index through its third
\* candidate
C3_Witness ==
    /\ DOMAIN today_open_data = {Instruments[i] : i \in 1..Len(Instruments)}
    /\ DOMAIN yesterday_data = DOMAIN today_open_data
    /\ yesterday_data["NIFTY MID SELECT"].symbol_used = "NIFTY_MIDCAP_100.NS"

-----------------------------------------------------------------------------
(* Properties of the bar-building code, under SpecParse *)

\* position i of the response holds a number as open and a number as close
HasOpenAndClose(r, i) ==
    /\ i <= Len(r.open) /\ r.open[i] # NULL
    /\ i <= Len(r.close) /\ r.close[i] # NULL

\* the positions of the response with an open and a close
Complete(r) == {i \in 1..Len(r.timestamp) : HasOpenAndClose(r, i)}

\* bar b holds the values of position i
IsBarOf(b, r, i) ==
    /\ b.date = DateStr(r.timestamp[i])
    /\ b.open = r.open[i]
    /\ b.close = r.close[i]

\* the today record holds the values of position i
TodayIsOf(r, i) ==
    LET t == today_open_data[ParseName]
    IN  /\ t.date = DateStr(r.timestamp[i])
        /\ t.open = Round2(r.open[i])

\* the yesterday record holds the values of position i
YesterdayIsOf(r, i) ==
    LET y == yesterday_data[ParseName]
    IN  /\ y.date = DateStr(r.timestamp[i])
        /\ y.open = Round2(r.open[i])
        /\ y.close = Round2(r.close[i])

Recorded ==
    /\ ParseName \in DOMAIN today_open_data
    /\ ParseName \in DOMAIN yesterday_data

\* C4: a position whose open or close is null or lies beyond the end of
\* the array gives no bar: the bars are those of the complete positions, one
\* each, records are written exactly when there are at least 2 complete
\* positions, and both records hold the values of complete positions.
C4_IncompletePositionsGiveNoBar ==
    pc = "PARSED" =>
        LET ok == Complete(response)
        IN  /\ Len(dates_data) = Cardinality(ok)
            /\ \A k \in 1..Len(dates_data) :
                   \E i \in ok : IsBarOf(dates_data[k], response, i)
            /\ Recorded <=> Cardinality(ok) >= 2
            /\ Recorded =>
                   /\ \E i \in ok : TodayIsOf(response, i)
                   /\ \E i \in ok : YesterdayIsOf(response, i)

\* three sessions on three days, the latest one without a close: the
\* records are those of the two earlier days
C4_Witness ==
    /\ pc = "PARSED"
    /\ response.timestamp = <<1703994300, 1704080700, 1704167100>>
    /\ Len(response.close) = 3
    /\ response.close[3] = NULL
    /\ Recorded
    /\ today_open_data[ParseName].date = <<2024, 1, 1>>
    /\ yesterday_data[ParseName].date = <<2023, 12, 31>>

\* no complete position other than i has a later local day than position j
LatestBut(r, i, j) ==
    \A k \in Complete(r) \ {i} :
        LocalDay(r.timestamp[k]) <= LocalDay(r.timestamp[j])

C6_NoDateTies ==
    pc = "PARSED" =>
        /\ \A k, m \in 1..Len(dates_data) :
               k # m => dates_data[k].date # dates_data[m].date
        /\ Recorded =>
               StrLess(yesterday_data[ParseName].date, today_open_data[ParseName].date)

-----------------------------------------------------------------------------
(* Properties of send_telegram_message, under Spec *)

Is200(res) == res.kind = "status" /\ res.code = 200

\* C7: a send makes at most 3 attempts; it returns True exactly at the first
\* attempt that gets status 200, with no attempt after it; it returns False
\* only when 3 attempts have failed; and after every attempt, whatever it
\* met, the send either goes on to the next attempt or has returned True or
\* False.
C7_BoundedAttemptsBooleanResult ==
    /\ result \in {"none", "True", "False"}
    /\ Len(tries) <= 3
    /\ \A k \in 1..(Len(tries) - 1) : ~Is200(tries[k])
    /\ result = "True" <=> (tries # <<>> /\ Is200(tries[Len(tries)]))
    /\ result = "False" <=>
          (Len(tries) = 3 /\ \A k \in 1..3 : ~Is200(tries[k]))
    /\ Sending => attempt = Len(tries) /\ attempt < 3

\* a send that met a 404, a connection error and an exception has returned
\* False
C7_Witness ==
    /\ result = "False"
    /\ Len(tries) = 3
    /\ tries[1] = Status(404)
    /\ tries[2].kind = "ConnectionError"
    /\ tries[3].kind = "Exception"

\* the server answered attempt k with a status that is not 2xx: a response
\* with such a status came back, or every transmission of the attempt was
\* answered with a status of the forcelist
FailedOnStatus(res) ==
    \/ res.kind = "status" /\ res.code # 200
    \/ res.kind = "RetryError"

\* C8 (as claimed): after every attempt that failed on a non-2xx status,
\* HTTP 500 included, and is followed by another attempt, the send sleeps 2
\* seconds.
C8_StatusFailureWaitsTwoSeconds ==
    \A k \in 1..Len(waits) : FailedOnStatus(tries[k]) => waits[k] = 2

\* C9: after a connection error or a timeout on attempt n < 3 the send
\* sleeps 2 * n seconds; it never sleeps after the third attempt nor after
\* it has returned; three timeouts give False after sleeps of 2 and 4
\* seconds.
C9_LinearBackoff ==
    /\ \A k \in 1..Len(waits) :
           tries[k].kind \in {"ConnectionError", "Timeout"} => waits[k] = 2 * k
    /\ Len(waits) <= 2
    /\ result # "none" => Len(waits) = Len(tries) - 1
    /\ (Len(tries) = 3 /\ \A k \in 1..3 : tries[k].kind = "Timeout") =>
           result = "False" /\ waits = <<2, 4>>

\* three timeouts
C9_Witness ==
    /\ Len(tries) = 3
    /\ \A k \in 1..3 : tries[k].kind = "Timeout"
    /\ result = "False"
    /\ waits = <<2, 4>>

-----------------------------------------------------------------------------
(* Properties of the run, under Spec *)

\* the states of the run: FETCH_AND_SEND is the fetch, the choice of the
\* payload and its send
FetchAndSend == {"FETCH", "REPORT", "SEND"}

IsTestPost(e) == e = <<"POST", "test">>
IsGet(e) == e[1] = "GET"
IsPayloadPost(e) == e[1] = "POST" /\ e[2] \in {"report", "error"}

\* network calls come in three phases: test sends, quote fetches, payload
\* sends
Phase(e) == IF IsTestPost(e) THEN 1 ELSE IF IsGet(e) THEN 2 ELSE 3

C10_Order ==
    /\ pc \in {"INIT", "TEST_CONNECTION", "ABORT", "DONE"} \cup FetchAndSend
    /\ netlog # <<>> => IsTestPost(netlog[1])
    /\ \A i, j \in 1..Len(netlog) : i < j => Phase(netlog[i]) <= Phase(netlog[j])
    /\ \A i \in 1..Len(netlog) :
           IsTestPost(netlog[i]) \/ IsGet(netlog[i]) \/ IsPayloadPost(netlog[i])
    /\ pc = "INIT" => netlog = <<>>
    /\ pc \in {"INIT", "TEST_CONNECTION"} <=> connected = "none"
    /\ pc \in FetchAndSend => connected = "True"
    /\ pc = "ABORT" => connected = "False"
    /\ connected # "True" => \A i \in 1..Len(netlog) : IsTestPost(netlog[i])
    /\ (\E i \in 1..Len(netlog) : IsPayloadPost(netlog[i])) =>
           /\ pc \in {"SEND", "DONE"}
           /\ idx = Len(Instruments) + 1

C10_Transition ==
    pc' # pc =>
        \/ pc = "INIT" /\ pc' = "TEST_CONNECTION"
        \/ pc = "TEST_CONNECTION" /\ result = "True" /\ pc' = "FETCH"
        \/ pc = "TEST_CONNECTION" /\ result = "False" /\ pc' = "ABORT"
        \/ pc = "FETCH" /\ pc' = "REPORT"
        \/ pc = "REPORT" /\ pc' = "SEND"
        \/ pc = "SEND" /\ pc' = "DONE"
        \/ pc = "ABORT" /\ pc' = "DONE"

\* C10: a run goes INIT, TEST_CONNECTION, then FETCH_AND_SEND if the test
\* send returned True and ABORT if it returned False, then DONE. The first
\* network call is a send of the test message; a run whose test returned
\* False makes no quote fetch and no payload send; and no quote fetch
\* follows a payload send, which begins only once every instrument is done.
C10_RunStateMachine == []C10_Order /\ [][C10_Transition]_vars

\* a run that passed the test, fetched quotes and has sent its payload
C10_Witness ==
    /\ pc = "DONE"
    /\ connected = "True"
    /\ Len(netlog) >= 3
    /\ IsTestPost(netlog[1])
    /\ \E i \in 1..Len(netlog) : IsGet(netlog[i])
    /\ IsPayloadPost(netlog[Len(netlog)])

-----------------------------------------------------------------------------
(* Properties of get_and_send_simplified_stock_data, under Spec *)

\* the fetch wrote no record for any instrument
NoRecords == \A i \in 1..Len(Instruments) : Absent(i)

\* the calls of send_telegram_message with a payload
PayloadSends == SelectSeq(sends, LAMBDA m : m \in {"report", "error"})

\* the text is a report: it has the greeting and the two section headers
IsReport(text) ==
    /\ Len(text) >= 5
    /\ text[1].kind = "greeting"
    /\ text[3].kind = "today_header"
    /\ \E k \in 1..Len(text) : text[k].kind = "yesterday_header"
    /\ \A k \in 1..Len(text) : text[k].kind \notin {"error", "unable"}

\* C11: once the fetch is over, the payload is chosen: with no record for
\* any instrument the fixed error message is handed to the send and no
\* report is built; with a record for at least one instrument a report
\* built from the two maps is handed to the send and the error message is
\* not. Every POST of the payload send carries that one kind of message. A
\* run that passed the connection test calls the send for exactly one
\* payload: none before the fetch is over, one from then on.
C11_ErrorMessageOrReport ==
    /\ pc = "SEND" /\ NoRecords =>
          /\ msg = "error"
          /\ message = ErrorMessage
          /\ ~IsReport(message)
    /\ pc = "SEND" /\ ~NoRecords =>
          /\ msg = "report"
          /\ IsReport(message)
          /\ \E now \in Clock :
                 message = format_simplified_message(today_open_data, yesterday_data,
                                                     now, hashseed)
    /\ pc \in {"SEND", "DONE"} /\ connected = "True" =>
          /\ PayloadSends = <<IF NoRecords THEN "error" ELSE "report">>
          /\ \A k \in 1..Len(netlog) :
                 IsPayloadPost(netlog[k]) => netlog[k][2] = PayloadSends[1]
    /\ pc \notin {"SEND", "DONE"} \/ connected # "True" => PayloadSends = <<>>
    /\ Len(sends) <= 2
    /\ sends # <<>> => sends[1] = "test"

\* a run whose fetch exhausted every instrument has sent the error message,
\* at the second attempt
C11_Witness ==
    /\ pc = "DONE"
    /\ connected = "True"
    /\ NoRecords
    /\ sends = <<"test", "error">>
    /\ netlog[Len(netlog)] = <<"POST", "error">>
    /\ netlog[Len(netlog) - 1] = <<"POST", "error">>
    /\ IsGet(netlog[Len(netlog) - 2])

-----------------------------------------------------------------------------
(* Properties of format_simplified_message, under SpecFormat *)

\* format_simplified_message has been called on the two maps
Formatted == pc \in {"FORMATTED", "RESTARTED", "AGAIN"}

\* the positions of the lines of a kind
LinesOf(text, kind) == {k \in 1..Len(text) : text[k].kind = kind}

\* the values printed in the lines of a kind
Named(text, kind) ==
    UNION {{text[k].value[j] : j \in 1..Len(text[k].value)} : k \in LinesOf(text, kind)}

\* the expected instruments that are not keys of a map
AbsentFrom(data) == {n \in all_expected_indices : n \notin DOMAIN data}

\* the lines of a kind are one line that names exactly these instruments,
\* each once, below the data status header; or no line if there are none
NamesExactly(text, kind, names) ==
    /\ Named(text, kind) = names
    /\ Cardinality(LinesOf(text, kind)) = (IF names = {} THEN 0 ELSE 1)
    /\ \A k \in LinesOf(text, kind) :
           /\ Len(text[k].value) = Cardinality(names)
           /\ \E h \in LinesOf(text, "data_status") : h < k

\* C12: for maps that are not both empty, the text has a data status
\* section exactly when one of the four expected instruments is missing
\* from the today map or from the yesterday map; its 'missing today' line
\* names exactly the expected instruments that are not keys of the today
\* map and its 'missing yesterday' line exactly those that are not keys of
\* the yesterday map; so an instrument in neither map (as one whose
\* candidates were exhausted) is named in both lines.
C12_DataStatusNamesTheMissing ==
    Formatted /\ (DOMAIN today_open_data # {} \/ DOMAIN yesterday_data # {}) =>
        /\ LinesOf(message, "data_status") # {} <=>
               (AbsentFrom(today_open_data) # {} \/ AbsentFrom(yesterday_data) # {})
        /\ Cardinality(LinesOf(message, "data_status")) <= 1
        /\ NamesExactly(message, "missing_today", AbsentFrom(today_open_data))
        /\ NamesExactly(message, "missing_yesterday", AbsentFrom(yesterday_data))
        /\ \A n \in all_expected_indices :
               n \notin DOMAIN today_open_data /\ n \notin DOMAIN yesterday_data =>
                   /\ n \in Named(message, "missing_today")
                   /\ n \in Named(message, "missing_yesterday")

\* two instruments in the today map, one of them in the yesterday map: two
\* are named as missing today and three as missing yesterday
C12_Witness ==
    /\ pc = "FORMATTED"
    /\ DOMAIN today_open_data = {"NIFTY 50", "NIFTY BANK"}
    /\ DOMAIN yesterday_data = {"NIFTY 50"}
    /\ Named(message, "missing_today") = {"NIFTY MID SELECT", "NIFTY FINANCIAL SERVICES"}
    /\ Named(message, "missing_yesterday") =
           {"NIFTY BANK", "NIFTY MID SELECT", "NIFTY FINANCIAL SERVICES"}

\* the generation timestamps printed in a text
RetrievedAt(text) == {text[k].value : k \in LinesOf(text, "retrieved")}

\* a second call on the same maps that prints the same generation timestamp
SecondCallSameTimestamp ==
    /\ pc \in {"FORMATTED", "RESTARTED"}
    /\ pc' = "AGAIN"
    /\ RetrievedAt(message') = RetrievedAt(message)

\* C13 (as claimed): a second call of format_simplified_message with the
\* same two maps and the same generation timestamp returns the text the
\* first call returned, line for line, the missing instruments named in the
\* same order.
C13_SameInputsSameText ==
    [][SecondCallSameTimestamp => message' = message]_vars

\* the same, for two calls made by one process
C13_SameProcessSameText ==
    [][SecondCallSameTimestamp /\ pc = "FORMATTED" => message' = message]_vars

\* the dates printed in the headers of a kind
HeaderDates(text, kind) == {text[k].value : k \in LinesOf(text, kind)}

\* what a header prints is the date of a record of the map
IsDateOf(shown, data) ==
    \E n \in DOMAIN data : "date" \in DOMAIN data[n] /\ shown = data[n]["date"]

\* C14 (as claimed): the text of a report has one header per section; the
\* header of a section whose map is non-empty shows the date of a record of
\* that map (the generic label if the record has no date), and the header
\* of a section whose map is empty shows the generic label, not the empty
\* string.
C14_HeaderDateOrLabel ==
    Formatted /\ (DOMAIN today_open_data # {} \/ DOMAIN yesterday_data # {}) =>
        /\ Cardinality(LinesOf(message, "today_header")) = 1
        /\ Cardinality(LinesOf(message, "yesterday_header")) = 1
        /\ \A shown \in HeaderDates(message, "today_header") :
               /\ shown # EmptyString
               /\ IF DOMAIN today_open_data = {}
                  THEN shown = TodayLabel
                  ELSE shown = TodayLabel \/ IsDateOf(shown, today_open_data)
        /\ \A shown \in HeaderDates(message, "yesterday_header") :
               /\ shown # EmptyString
               /\ IF DOMAIN yesterday_data = {}
                  THEN shown = YesterdayLabel
                  ELSE shown = YesterdayLabel \/ IsDateOf(shown, yesterday_data)

\* the same with the empty string for the section of an empty map: what the
\* code prints
C14_HeaderDateOrEmpty ==
    Formatted /\ (DOMAIN today_open_data # {} \/ DOMAIN yesterday_data # {}) =>
        /\ \A shown \in HeaderDates(message, "today_header") :
               IF DOMAIN today_open_data = {}
               THEN shown = EmptyString
               ELSE shown = TodayLabel \/ IsDateOf(shown, today_open_data)
        /\ \A shown \in HeaderDates(message, "yesterday_header") :
               IF DOMAIN yesterday_data = {}
               THEN shown = EmptyString
               ELSE shown = YesterdayLabel \/ IsDateOf(shown, yesterday_data)

-----------------------------------------------------------------------------
(* Properties of the rendered report, under SpecParse *)

\* the values printed in the lines of a kind for an instrument
Printed(text, kind, name) ==
    {text[k].value[1] : k \in {h \in LinesOf(text, kind) : text[h].name = name}}

\* the instrument has one block of fixed shape in each section
FixedShape(text, name) ==
    \A kind \in {"today_name", "today_open", "yesterday_name", "yesterday_open",
                 "yesterday_high", "yesterday_low", "yesterday_close"} :
        Cardinality({h \in LinesOf(text, kind) : text[h].name = name}) = 1

\* the field prints 'N/A' exactly when the source value is null, and the
\* rounded source value otherwise
PrintsSource(text, kind, source) ==
    Printed(text, kind, ParseName) = {IF source = NULL THEN NA ELSE Round2(source)}

\* the same, with the number 0 printed as 'N/A' too
PrintsSourceUnlessZero(text, kind, source) ==
    Printed(text, kind, ParseName) =
        {IF source = NULL \/ source = 0 THEN NA ELSE Round2(source)}

\* C15 (as claimed): an instrument with records has one today block with an
\* Open line and one yesterday block with Open, High, Low and Close lines,
\* and each field prints 'N/A' exactly when the bar it comes from has no
\* value (null) for it, and the rounded number otherwise, the number 0
\* included.
C15_PlaceholderOnlyForNull ==
    pc = "RENDERED" /\ Recorded =>
        /\ FixedShape(message, ParseName)
        /\ \E i \in Complete(response) : \E j \in Complete(response) \ {i} :
               /\ TodayIsOf(response, i)
               /\ YesterdayIsOf(response, j)
               /\ PrintsSource(message, "today_open", At(response.open, i))
               /\ PrintsSource(message, "yesterday_open", At(response.open, j))
               /\ PrintsSource(message, "yesterday_high", At(response.high, j))
               /\ PrintsSource(message, "yesterday_low", At(response.low, j))
               /\ PrintsSource(message, "yesterday_close", At(response.close, j))

\* the same with 0 printed as 'N/A': what the code prints
C15_PlaceholderForNullAndZero ==
    pc = "RENDERED" /\ Recorded =>
        /\ FixedShape(message, ParseName)
        /\ \E i \in Complete(response) : \E j \in Complete(response) \ {i} :
               /\ TodayIsOf(response, i)
               /\ YesterdayIsOf(response, j)
               /\ PrintsSourceUnlessZero(message, "today_open", At(response.open, i))
               /\ PrintsSourceUnlessZero(message, "yesterday_open", At(response.open, j))
               /\ PrintsSourceUnlessZero(message, "yesterday_high", At(response.high, j))
               /\ PrintsSourceUnlessZero(message, "yesterday_low", At(response.low, j))
               /\ PrintsSourceUnlessZero(message, "yesterday_close", At(response.close, j))

-----------------------------------------------------------------------------
(* Properties of the pacing of the quote fetches, under Spec *)

\* the next quote fetch is for a further candidate of the instrument whose
\* candidate was fetched last
BetweenCandidates == pc = "FETCH" /\ cand > 1

\* the next quote fetch is for the first candidate of the instrument after
\* the one fetched last
BetweenInstruments == pc = "FETCH" /\ cand = 1 /\ idx > 1

\* C16 (as claimed): before the fetch of a further candidate of the same
\* instrument the loop has slept since the fetch before it, in whatever way
\* that attempt failed; and before the fetch for the next instrument the
\* loop has slept since the last fetch for the instrument before.
C16_PacingBetweenFetches ==
    /\ BetweenCandidates => paused > 0
    /\ BetweenInstruments => paused > 0

\* what the code does: between candidates it sleeps only after a non-200
\* status or fewer than 2 bars; between instruments it always sleeps
C16_PacingAsCoded ==
    /\ BetweenCandidates =>
          (paused > 0 <=> Outcome(response) \in {"http", "few"})
    /\ BetweenInstruments => paused >= InstrumentSleep

-----------------------------------------------------------------------------
(* Properties of the two retry layers, under SpecSend *)

\* the transmissions, by position in txlog, of pass a of the loop (0-based)
InPass(a) == {k \in 1..Len(txlog) : txlog[k].attempt = a}

\* transmission k was followed by another transmission of the same pass:
\* the adapter sent again after it
ResentAfter(k) == k < Len(txlog) /\ txlog[k + 1].attempt = txlog[k].attempt

OnForcelist(t) == t.kind = "status" /\ t.code \in StatusForcelist

\* the adapter used up its retries in pass a: 1 + RetryTotal transmissions,
\* the last one with a retryable result too
UsedUp(a, again) ==
    /\ Cardinality(InPass(a)) = 1 + RetryTotal
    /\ \A k \in InPass(a) : txlog[k].met \in again

\* The layers: at most 3 re-sends in a pass, the adapter sends again only
\* after the results in `again`, a pass in which the adapter used
\* up its retries is one failed attempt after which the loop goes on unless
\* it was the third, and a send makes at most 3 attempts and 12
\* transmissions.
Layers(again) ==
    /\ \A k \in 1..Len(txlog) : ResentAfter(k) => txlog[k].met \in again
    /\ \A a \in 0..(max_retries - 1) :
          /\ Cardinality(InPass(a)) <= 1 + RetryTotal
          /\ UsedUp(a, again) =>
                /\ Len(tries) >= a + 1
                /\ ~Is200(tries[a + 1])
                /\ a + 1 < max_retries /\ Len(tries) = a + 1 =>
                       result = "none" /\ attempt = a + 1
                /\ result = "False" => Len(tries) = max_retries
    /\ \A k \in 1..Len(txlog) : txlog[k].attempt \in 0..(max_retries - 1)
    /\ Len(tries) <= 3
    /\ Len(txlog) <= 12
    /\ result # "none" => xmits = Len(txlog)

\* C17 (as claimed): within one attempt of the loop the adapter sends again
\* only after a status 429, 500, 502, 503 or 504 and at most 3 times; an
\* attempt in which it used up its retries is one failed attempt, not the
\* failure of the send; a send makes at most 3 attempts and at most 12
\* transmissions.
C17_TransportRetriesOnStatusOnly ==
    Layers({t \in TxResults : OnForcelist(t)})

\* the same with the adapter sending again after a failed connection or a
\* timeout as well: what the session does
C17_TransportRetriesAsConfigured ==
    Layers({t \in TxResults : Retryable(t)})

\* 12 transmissions: every one of them answered 500
C17_TwelveTransmissions ==
    /\ Len(txlog) = 12
    /\ \A k \in 1..12 : txlog[k].met = Status(500)
    /\ result = "False"

-----------------------------------------------------------------------------
(* Properties of the attempt counter of send_telegram_message, under Spec *)

\* the waits of a send are those after its failed attempts but the third:
\* none after a success, none after the last attempt
WaitsOnlyBetweenAttempts ==
    /\ Len(tries) <= 3
    /\ Len(waits) <= 2
    /\ Sending => Len(waits) = Len(tries) /\ attempt = Len(tries)
    /\ result = "True" => Len(waits) = Len(tries) - 1
    /\ result = "False" => Len(tries) = 3 /\ Len(waits) = 2
    /\ \A k \in 1..Len(waits) : ~Is200(tries[k])

\* C18 (as claimed): whatever the mix of failures, a send makes at most 3
\* attempts, counted by one counter; after failed attempt n < 3 it sleeps 2
\* seconds if the attempt failed on a non-200 status, 2 * n seconds if on a
\* connection error or a timeout, 3 seconds if on any other exception; it
\* does not sleep after the third attempt nor after a success.
C18_OneCounterThreeBackoffs ==
    /\ WaitsOnlyBetweenAttempts
    /\ \A k \in 1..Len(waits) :
           waits[k] = IF FailedOnStatus(tries[k]) THEN 2
                      ELSE IF tries[k].kind \in {"ConnectionError", "Timeout"}
                           THEN 2 * k
                           ELSE 3

\* the same, with the exception raised for a status of the forcelist
\* counted among the other exceptions: what the code does
C18_BackoffsAsCoded ==
    /\ WaitsOnlyBetweenAttempts
    /\ \A k \in 1..Len(waits) :
           waits[k] = IF tries[k].kind = "status" THEN 2
                      ELSE IF tries[k].kind \in {"ConnectionError", "Timeout"}
                           THEN 2 * k
                           ELSE 3

\* a send that met an exception, then a timeout, then a 404
C18_MixedFailures ==
    /\ result = "False"
    /\ tries[1].kind = "Exception"
    /\ tries[2].kind = "Timeout"
    /\ tries[3] = Status(404)
    /\ waits = <<3, 4>>

-----------------------------------------------------------------------------
(* Frame properties of get_simplified_stock_data, under Spec *)

\* the records of the map before the step are still there, as they were
Kept(data, data2) ==
    \A n \in DOMAIN data : n \in DOMAIN data2 /\ data2[n] = data[n]

\* the step is a candidate attempt that failed
FailedAttempt ==
    /\ pc = "FETCH"
    /\ Len(fetched'[idx]) = Len(fetched[idx]) + 1
    /\ ~fetched'[idx][Len(fetched'[idx])].ok

\* the step is a candidate attempt that succeeded
SucceededAttempt ==
    /\ pc = "FETCH"
    /\ Len(fetched'[idx]) = Len(fetched[idx]) + 1
    /\ fetched'[idx][Len(fetched'[idx])].ok

\* the number of candidates of instrument i that yielded records
Writes(i) == Cardinality({k \in 1..Len(fetched[i]) : fetched[i][k].ok})

C19_Step ==
    /\ Kept(today_open_data, today_open_data')
    /\ Kept(yesterday_data, yesterday_data')
    /\ FailedAttempt =>
          today_open_data' = today_open_data /\ yesterday_data' = yesterday_data
    /\ SucceededAttempt =>
          /\ Instruments[idx] \notin DOMAIN today_open_data
          /\ Instruments[idx] \notin DOMAIN yesterday_data
          /\ DOMAIN today_open_data' = DOMAIN today_open_data \cup {Instruments[idx]}
          /\ DOMAIN yesterday_data' = DOMAIN yesterday_data \cup {Instruments[idx]}
    /\ pc # "FETCH" =>
          today_open_data' = today_open_data /\ yesterday_data' = yesterday_data

C19_WrittenOnce ==
    \A i \in 1..Len(Instruments) :
        /\ Writes(i) <= 1
        /\ Present(i) <=> Writes(i) = 1

\* C19: a candidate attempt that fails leaves both maps as they were; the
\* pair of records of an instrument is written by at most one attempt of
\* the run, into maps that did not hold the instrument; no step of the run
\* changes or removes a record once written.
C19_RecordsWrittenOnceAndKept == []C19_WrittenOnce /\ [][C19_Step]_vars

\* the first three instruments have records, the mid-cap index from its
\* second candidate, and the attempt for the fourth has failed
C19_Witness ==
    /\ pc = "REPORT"
    /\ Present(1) /\ Present(2) /\ Present(3)
    /\ Len(fetched[3]) = 2
    /\ Len(fetched[4]) = 1
    /\ ~fetched[4][1].ok
    /\ Absent(4)

-----------------------------------------------------------------------------
(* Termination and resource bounds of a run, under Spec *)

\* the positions in netlog of the quote fetches and of the POSTs of a kind
Gets == {k \in 1..Len(netlog) : IsGet(netlog[k])}
Posts(kind) == {k \in 1..Len(netlog) : netlog[k] = <<"POST", kind>>}

\* candidates not fetched yet that the loop may still fetch
RECURSIVE CandidatesFrom(_)
CandidatesFrom(i) ==
    IF i > Len(Instruments) THEN 0
    ELSE Len(Candidates(Instruments[i])) + CandidatesFrom(i + 1)

\* passes of the loop of the running send that may still come, and its
\* return
SendSteps == IF result = "none" THEN 1 + (max_retries - Len(tries)) ELSE 1

\* an upper bound of the number of steps the run can still take
StepsLeft ==
    CASE pc = "INIT" -> 19
      [] pc = "TEST_CONNECTION" -> 14 + SendSteps
      [] pc = "FETCH" -> 6 + CandidatesFrom(idx) - (cand - 1)
      [] pc = "REPORT" -> 5
      [] pc = "SEND" -> SendSteps
      [] pc = "ABORT" -> 1
      [] OTHER -> 0

C20_Bounds ==
    /\ pc = "DONE" \/ ENABLED Next
    /\ pc = "DONE" <=> StepsLeft = 0
    /\ StepsLeft \in 0..19
    /\ Cardinality(Gets) <= 7
    /\ \A j, k \in Gets : netlog[j] = netlog[k] => j = k
    /\ Len(sends) <= 2
    /\ Cardinality({k \in 1..Len(sends) : sends[k] = "test"}) <= 1
    /\ Cardinality({k \in 1..Len(sends) : sends[k] # "test"}) <= 1
    /\ Cardinality(Posts("test")) <= 3
    /\ Cardinality(Posts("report")) + Cardinality(Posts("error")) <= 3
    /\ Len(tries) <= 3

C20_Progress == StepsLeft' < StepsLeft

\* C20: a run in which every network call returns ends in DONE: every step
\* lowers a bound on the steps left, and a step is possible in every state
\* but DONE. Every candidate symbol is fetched at most once, 7 quote
\* fetches at most; send_telegram_message is called at most twice, once for
\* the test and once for a payload; each call makes at most 3 attempts.
C20_TerminatesWithinBounds == []C20_Bounds /\ [][C20_Progress]_vars

\* the longest run: 3 attempts for the test, all 7 candidates fetched, 3
\* attempts for the payload
C20_Witness ==
    /\ pc = "DONE"
    /\ Cardinality(Gets) = 7
    /\ Cardinality(Posts("test")) = 3
    /\ Cardinality(Posts("report")) = 3
    /\ sends = <<"test", "report">>

=============================================================================
